---- MODULE Spec2Model ----
(***************************************************************************)
(* A model of the task manager of src/task_manager.py: the Task value      *)
(* object, the TaskManager store and its whole-file JSON persistence.      *)
(*                                                                         *)
(* Strings are sequences of one-character strings, so that str.lower(),    *)
(* str.strip() and truthiness are computed and not assumed.  An            *)
(* Optional[T] is None == <<>> or Some(v) == <<v>>.  A calendar date is    *)
(* its day ordinal.                                                        *)
(***************************************************************************)
EXTENDS Integers, Sequences, FiniteSets, TLC

VARIABLES
    tasks,      \* TaskManager.tasks: the in-memory sequence of Task objects
    file,       \* the backing file: [kind, data]
    clock,      \* datetime.now(): one more than the number of store operations so far
    pc,         \* "start": no store yet; "ready": a store exists; "crashed"
    last,       \* the last call: [op, args, ret, exc]
    addsOnly,   \* the store started empty and only add has changed it
    origin,     \* what the backing file was when the first store was built
    diskOk,     \* whether open(filename, 'w') and the write succeed
    saveState   \* "clean": no save_tasks of this store has failed; "lost": its
                \* last one failed; "recovered": one succeeded after a failed one

vars == <<tasks, file, clock, pc, last, addsOnly, origin, diskOk, saveState>>

----------------------------------------------------------------------------
(* Bounds of the model *)

MaxTasks == 2
MaxTags == 2
MaxClock == 3
Today == 10

----------------------------------------------------------------------------
(* Python values *)

None == <<>>
Some(v) == <<v>>
Val(o) == o[1]

Upper == <<"A","B","C","D","E","F","G","H","I","J","K","L","M",
           "N","O","P","Q","R","S","T","U","V","W","X","Y","Z">>
Lowers == <<"a","b","c","d","e","f","g","h","i","j","k","l","m",
            "n","o","p","q","r","s","t","u","v","w","x","y","z">>

LowerChar(c) ==
    IF \E i \in 1..26 : Upper[i] = c
    THEN Lowers[CHOOSE i \in 1..26 : Upper[i] = c]
    ELSE c

\* str.lower()
Lower(s) == [i \in 1..Len(s) |-> LowerChar(s[i])]

IsSpace(c) == c \in {" ", "\t", "\n"}

RECURSIVE LStrip(_)
LStrip(s) == IF s # <<>> /\ IsSpace(Head(s)) THEN LStrip(Tail(s)) ELSE s

RECURSIVE RStrip(_)
RStrip(s) ==
    IF s # <<>> /\ IsSpace(s[Len(s)]) THEN RStrip(SubSeq(s, 1, Len(s) - 1)) ELSE s

\* str.strip()
Strip(s) == RStrip(LStrip(s))

\* truthiness of a str or a list: empty is falsy
Truthy(v) == v # <<>>

\* truthiness of an Optional[str] or Optional[list]: None and empty are falsy
OptTruthy(o) == o # None /\ Val(o) # <<>>

\* x in list
InList(x, l) == \E i \in 1..Len(l) : l[i] = x

\* list.remove(x), x in the list: the first occurrence goes
ListRemove(l, x) ==
    LET k == CHOOSE i \in 1..Len(l) : l[i] = x /\ \A j \in 1..(i - 1) : l[j] # x
    IN  SubSeq(l, 1, k - 1) \o SubSeq(l, k + 1, Len(l))

\* list.pop() without its index: the last element goes
ListPop_Last(l, index) == SubSeq(l, 1, Len(l) - 1)

\* list.pop(index), 0-based
ListPop(l, index) == SubSeq(l, 1, index) \o SubSeq(l, index + 2, Len(l))

LOW == <<"l","o","w">>
MEDIUM == <<"m","e","d","i","u","m">>
HIGH == <<"h","i","g","h">>
Priorities == {LOW, MEDIUM, HIGH}

----------------------------------------------------------------------------
(* parse_date: dateparser with PREFER_DATES_FROM future, relative to now *)

TOMORROW == <<"t","o","m","o","r","r","o","w">>
YESTERDAY == <<"y","e","s","t","e","r","d","a","y">>
SOMEDAY == <<"s","o","m","e","d","a","y","?">>

ParseDate(date_str) ==
    IF ~Truthy(date_str) THEN None
    ELSE IF date_str = TOMORROW THEN Some(Today + 1)
    ELSE IF date_str = YESTERDAY THEN Some(Today - 1)
    ELSE None

----------------------------------------------------------------------------
(* class Task *)

\* Task.__init__ without its priority check
TaskInitRaises_Never(priority) == FALSE

\* the ValueError of Task.__init__
TaskInitRaises(priority) == Lower(priority) \notin Priorities

\* Task.__init__(title, priority, due_date, tags) at time now;
\* due_date is None or Some(date), tags is None or Some(list)
TaskInit(title, priority, due_date, tags, now) ==
    [title      |-> title,
     priority   |-> Lower(priority),
     due_date   |-> due_date,
     tags       |-> IF OptTruthy(tags) THEN Val(tags) ELSE <<>>,
     completed  |-> FALSE,
     created_at |-> now]

\* Task.mark_complete
MarkComplete(t) == [t EXCEPT !.completed = TRUE]

\* is_overdue without `or self.completed`
IsOverdue_OfCompleted(t) ==
    IF t.due_date = None THEN FALSE
    ELSE Val(t.due_date) < Today

\* Task.is_overdue
IsOverdue(t) ==
    IF t.due_date = None \/ t.completed THEN FALSE
    ELSE Val(t.due_date) < Today

\* Task.add_tag
AddTag(t, tag) ==
    IF Truthy(tag) /\ ~InList(tag, t.tags)
    THEN [t EXCEPT !.tags = Append(@, Lower(tag))]
    ELSE t

\* Task.remove_tag raises the ValueError of list.remove
RemoveTagRaises(t, tag) == InList(tag, t.tags) /\ ~InList(Lower(tag), t.tags)

\* Task.remove_tag, when it does not raise
RemoveTag(t, tag) ==
    IF InList(tag, t.tags)
    THEN [t EXCEPT !.tags = ListRemove(@, Lower(tag))]
    ELSE t

\* Task.to_dict
ToDict(t) ==
    [title      |-> t.title,
     priority   |-> t.priority,
     due_date   |-> t.due_date,
     tags       |-> t.tags,
     completed  |-> t.completed,
     created_at |-> t.created_at]

\* dict.get(key, default)
DictGet(d, key, default) == IF key \in DOMAIN d THEN d[key] ELSE default

\* Task.from_dict raises: the KeyError of a missing key, or the ValueError of
\* Task.__init__ (named InvalidPriority here); "none" when it returns
FromDictExc(d) ==
    IF "title" \notin DOMAIN d \/ "priority" \notin DOMAIN d THEN "KeyError"
    ELSE IF TaskInitRaises(d["priority"]) THEN "InvalidPriority"
    ELSE IF "completed" \notin DOMAIN d \/ "created_at" \notin DOMAIN d THEN "KeyError"
    ELSE "none"

\* Task.from_dict without task.created_at = data["created_at"]: the task keeps
\* the stamp of its construction
FromDict_NewStamp(d, now) ==
    LET due  == DictGet(d, "due_date", None)
        tags == Some(DictGet(d, "tags", <<>>))
        task == TaskInit(d["title"], d["priority"], due, tags, now)
    IN  [task EXCEPT !.completed = d["completed"]]

\* Task.from_dict, when it does not raise; data.get("tags", []) is the list
\* itself, and JSON null is None
FromDict(d, now) ==
    LET due  == DictGet(d, "due_date", None)
        tags == Some(DictGet(d, "tags", <<>>))
        task == TaskInit(d["title"], d["priority"], due, tags, now)
    IN  [task EXCEPT !.completed = d["completed"], !.created_at = d["created_at"]]

----------------------------------------------------------------------------
(* The backing file and TaskManager.save_tasks / load_tasks *)

MissingFile == [kind |-> "missing", data |-> <<>>]
GarbageFile == [kind |-> "garbage", data |-> <<>>]
JsonFile(data) == [kind |-> "json", data |-> data]

\* json.dump([t.to_dict() for t in self.tasks], f)
Serialize(ts) == JsonFile([i \in 1..Len(ts) |-> ToDict(ts[i])])

\* TaskManager.save_tasks: the files it can leave.  With a failing disk,
\* open() fails (the file is as it was) or the write breaks off after open()
\* truncated the file; the IOError is caught and printed either way.
SavedFiles(ts, f, ok) == IF ok THEN {Serialize(ts)} ELSE {f, GarbageFile}

\* save_tasks without its except IOError
SaveExc_NoCatch(ok) == IF ok THEN "none" ELSE "IOError"

\* what save_tasks raises: its except IOError catches the failure
SaveExc(ok) == "none"

\* load_tasks without its except json.JSONDecodeError
LoadExc_NoDecodeCatch(f) ==
    IF f.kind = "garbage" THEN "JSONDecodeError"
    ELSE IF f.kind # "json" THEN "none"
    ELSE IF \A i \in 1..Len(f.data) : FromDictExc(f.data[i]) = "none" THEN "none"
    ELSE "KeyError"

\* TaskManager.load_tasks raises
LoadExc(f) ==
    IF f.kind # "json" THEN "none"
    ELSE IF \A i \in 1..Len(f.data) : FromDictExc(f.data[i]) = "none" THEN "none"
    ELSE FromDictExc(f.data[CHOOSE i \in 1..Len(f.data) :
                               /\ FromDictExc(f.data[i]) # "none"
                               /\ \A j \in 1..(i - 1) : FromDictExc(f.data[j]) = "none"])

\* TaskManager.load_tasks, when it does not raise
LoadTasks(f, now) ==
    IF f.kind # "json" THEN <<>>
    ELSE [i \in 1..Len(f.data) |-> FromDict(f.data[i], now)]

\* 0 <= index < len(self.tasks)
ValidIndex(index, ts) == 0 <= index /\ index < Len(ts)

----------------------------------------------------------------------------
(* The queries of TaskManager *)

\* sub in s, for strings
Contains(sub, s) ==
    \E i \in 0..(Len(s) - Len(sub)) : SubSeq(s, i + 1, i + Len(sub)) = sub

\* TaskManager.search_tasks
SearchTasks(ts, query) ==
    LET query_lower == Lower(query)
        Hit(t) == \/ Contains(query_lower, Lower(t.title))
                  \/ \E i \in 1..Len(t.tags) : Contains(query_lower, t.tags[i])
    IN  SelectSeq(ts, Hit)

\* TaskManager.get_tasks_by_tag
GetTasksByTag(ts, tag) ==
    LET tag_lower == Lower(tag)
        Has(t) == InList(tag_lower, t.tags)
    IN  SelectSeq(ts, Has)

\* the code point of a character, for the order of str
CodePoint(c) ==
    IF \E i \in 1..26 : Upper[i] = c THEN 64 + (CHOOSE i \in 1..26 : Upper[i] = c)
    ELSE IF \E i \in 1..26 : Lowers[i] = c THEN 96 + (CHOOSE i \in 1..26 : Lowers[i] = c)
    ELSE IF c = " " THEN 32
    ELSE IF c = "?" THEN 63
    ELSE IF c = "\t" THEN 9
    ELSE 10

\* a < b, for strings
RECURSIVE StrLess(_, _)
StrLess(a, b) ==
    IF b = <<>> THEN FALSE
    ELSE IF a = <<>> THEN TRUE
    ELSE IF Head(a) # Head(b) THEN CodePoint(Head(a)) < CodePoint(Head(b))
    ELSE StrLess(Tail(a), Tail(b))

\* sorted(list(set_of_strings))
RECURSIVE SortedStrings(_)
SortedStrings(S) ==
    IF S = {} THEN <<>>
    ELSE LET least == CHOOSE x \in S : \A y \in S \ {x} : StrLess(x, y)
         IN  <<least>> \o SortedStrings(S \ {least})

\* TaskManager.get_all_tags
GetAllTags(ts) ==
    SortedStrings(UNION {{ts[i].tags[j] : j \in 1..Len(ts[i].tags)} : i \in 1..Len(ts)})

\* TaskManager.list_tasks
ListTasks(ts, show_completed, priority_filter, tag_filter) ==
    LET NotDone(t) == ~t.completed
        HasPriority(t) == t.priority = Lower(Val(priority_filter))
        HasTag(t) == InList(Lower(Val(tag_filter)), t.tags)
        t1 == IF ~show_completed THEN SelectSeq(ts, NotDone) ELSE ts
        t2 == IF OptTruthy(priority_filter) THEN SelectSeq(t1, HasPriority) ELSE t1
    IN  IF OptTruthy(tag_filter) THEN SelectSeq(t2, HasTag) ELSE t2

\* priority_order of get_tasks_sorted
PriorityOrder(priority) ==
    IF priority = HIGH THEN 0 ELSE IF priority = MEDIUM THEN 1 ELSE 2

\* False < True
BoolOrder(b) == IF b THEN 1 ELSE 0

\* the sort key of get_tasks_sorted
SortKey(t) == <<BoolOrder(t.completed), PriorityOrder(t.priority), BoolOrder(~IsOverdue(t))>>

\* the key tuples compared without their overdue component
KeyLess_TwoKeys(a, b) ==
    \/ a[1] < b[1]
    \/ a[1] = b[1] /\ a[2] < b[2]

\* a < b, for the key tuples
KeyLess(a, b) ==
    \/ a[1] < b[1]
    \/ a[1] = b[1] /\ a[2] < b[2]
    \/ a[1] = b[1] /\ a[2] = b[2] /\ a[3] < b[3]

\* sorted(tasks, key=...) is stable: x goes after the entries that are not
\* greater than it
RECURSIVE InsertByKey(_, _)
InsertByKey(sorted, x) ==
    IF sorted # <<>> /\ KeyLess(SortKey(x), SortKey(sorted[Len(sorted)]))
    THEN Append(InsertByKey(SubSeq(sorted, 1, Len(sorted) - 1), x), sorted[Len(sorted)])
    ELSE Append(sorted, x)

RECURSIVE SortedByKey(_)
SortedByKey(ts) ==
    IF ts = <<>> THEN <<>>
    ELSE InsertByKey(SortedByKey(SubSeq(ts, 1, Len(ts) - 1)), ts[Len(ts)])

\* TaskManager.get_tasks_sorted
GetTasksSorted(ts, show_completed, priority_filter, tag_filter) ==
    SortedByKey(ListTasks(ts, show_completed, priority_filter, tag_filter))

\* TaskManager.get_statistics
GetStatistics(ts) ==
    LET Done(t) == t.completed
        HighOpen(t) == t.priority = HIGH /\ ~t.completed
        MediumOpen(t) == t.priority = MEDIUM /\ ~t.completed
        LowOpen(t) == t.priority = LOW /\ ~t.completed
        total == Len(ts)
        completed == Len(SelectSeq(ts, Done))
    IN  [total       |-> total,
         completed   |-> completed,
         incomplete  |-> total - completed,
         overdue     |-> Len(SelectSeq(ts, IsOverdue)),
         by_priority |-> [high   |-> Len(SelectSeq(ts, HighOpen)),
                          medium |-> Len(SelectSeq(ts, MediumOpen)),
                          low    |-> Len(SelectSeq(ts, LowOpen))],
         tags        |-> GetAllTags(ts)]

----------------------------------------------------------------------------
(* Inputs *)

TitleAb == <<"A","b">>
TitleB == <<"b">>
Blank == <<" ">>
High == <<"H","i","g","h">>
URGENT == <<"u","r","g","e","n","t">>
TagWork == <<"W","k">>
Tagwork == <<"w","k">>
TagX == <<"x">>

\* add_task(title, priority, due_date, tags)
AddArgs ==
    {<< <<>>, MEDIUM, None, None >>,
     << Blank, MEDIUM, None, None >>,
     << TitleB, URGENT, None, None >>,
     << TitleB, <<>>, None, Some(<<TagX>>) >>,
     << TitleB, LOW, None, None >>,
     << <<" ","A","b"," ">>, High, Some(YESTERDAY), Some(<<TagWork>>) >>,
     << TitleB, MEDIUM, Some(TOMORROW), Some(<<Tagwork, TagX>>) >>,
     << TitleAb, LOW, Some(SOMEDAY), Some(<<>>) >>,
     << TitleAb, HIGH, Some(<<>>), Some(<<TagX, TagX>>) >>}

\* update_task(index, title, priority, due_date, tags) without the index
UpdateArgs ==
    {<< None, None, None, None >>,
     << Some(<<>>), Some(<<>>), None, None >>,
     << Some(Blank), None, None, None >>,
     << Some(<<"b"," ">>), Some(High), None, None >>,
     << Some(TitleAb), Some(URGENT), Some(<<>>), Some(<<>>) >>,
     << None, Some(LOW), Some(<<>>), None >>,
     << None, None, Some(YESTERDAY), Some(<<TagWork, Tagwork>>) >>,
     << None, None, Some(SOMEDAY), Some(<<>>) >>}

TagArgs == {TagWork, Tagwork, TagX, <<>>}

\* list_tasks / get_tasks_sorted (show_completed, priority_filter, tag_filter)
FilterArgs ==
    {<< TRUE, None, None >>,
     << FALSE, None, None >>,
     << TRUE, Some(High), None >>,
     << TRUE, None, Some(TagWork) >>,
     << TRUE, None, Some(Tagwork) >>,
     << FALSE, Some(LOW), Some(TagX) >>,
     << TRUE, Some(<<>>), Some(<<>>) >>}

\* search_tasks(query)
Queries == {<<"b">>, <<"B">>, Tagwork, <<"W","K">>, <<"k">>, TagX, <<"z">>, <<>>}

\* get_tasks_by_tag(tag)
TagQueries == {TagWork, Tagwork, <<"W","K">>, TagX, <<"k">>}
Indices == (-1)..MaxTasks

\* records as save_tasks writes them
StoredRecord == [title |-> TitleB, priority |-> HIGH, due_date |-> None,
                 tags |-> <<Tagwork>>, completed |-> TRUE, created_at |-> 0]
StoredRecord2 == [title |-> TitleAb, priority |-> LOW, due_date |-> Some(Today - 1),
                  tags |-> <<TagX, Tagwork>>, completed |-> FALSE, created_at |-> 0]
\* a record whose tag was given to add_task in mixed case
StoredRecord3 == [title |-> TitleAb, priority |-> MEDIUM, due_date |-> Some(Today + 1),
                  tags |-> <<TagWork, TagX>>, completed |-> FALSE, created_at |-> 0]
\* a record written by hand: upper-case priority, no tags and no due_date key
HandRecord == [title |-> TitleAb, priority |-> High,
               completed |-> FALSE, created_at |-> 0]
\* an overdue record of the same priority as StoredRecord3
StoredRecord4 == [title |-> TitleB, priority |-> MEDIUM, due_date |-> Some(Today - 2),
                  tags |-> <<>>, completed |-> FALSE, created_at |-> 0]
\* malformed records: a priority outside the set, a missing title
BadPriorityRecord == [StoredRecord EXCEPT !.priority = URGENT]
NoTitleRecord == [priority |-> LOW, completed |-> FALSE, created_at |-> 0]

InitialFiles == {MissingFile, GarbageFile, JsonFile(<<>>),
                 JsonFile(<<StoredRecord, StoredRecord2>>),
                 JsonFile(<<StoredRecord3>>),
                 JsonFile(<<StoredRecord3, StoredRecord4>>),
                 JsonFile(<<HandRecord>>),
                 JsonFile(<<StoredRecord, BadPriorityRecord>>),
                 JsonFile(<<NoTitleRecord>>)}

NoCall == [op |-> "none", args |-> <<>>, ret |-> None, exc |-> "none"]
Call(op, args, ret, exc) == [op |-> op, args |-> args, ret |-> ret, exc |-> exc]

----------------------------------------------------------------------------
(* The state machine *)

Init ==
    /\ tasks = <<>>
    /\ file \in InitialFiles
    /\ clock = 1
    /\ pc = "start"
    /\ last = NoCall
    /\ addsOnly = FALSE
    /\ origin = file
    /\ diskOk = TRUE
    /\ saveState = "clean"

\* TaskManager.save_tasks on the sequence ts
SaveTasks(ts) ==
    /\ file' \in SavedFiles(ts, file, diskOk)
    /\ saveState' = IF ~diskOk THEN "lost"
                    ELSE IF saveState = "clean" THEN "clean" ELSE "recovered"

\* a store operation is called: time passes
Tick ==
    /\ clock < MaxClock
    /\ clock' = clock + 1

\* TaskManager.__init__: on the first store of a run, or a new store on the
\* same file in place of the old one; ret is whether load_tasks printed its
\* could-not-parse warning
Construct ==
    /\ pc \in {"start", "ready"}
    /\ IF LoadExc(file) = "none"
       THEN /\ tasks' = LoadTasks(file, clock)
            /\ pc' = "ready"
            /\ addsOnly' = IF pc = "start" THEN LoadTasks(file, clock) = <<>> ELSE addsOnly
       ELSE /\ tasks' = <<>>
            /\ pc' = "crashed"
            /\ addsOnly' = FALSE
    /\ last' = Call("construct", <<>>, file.kind = "garbage", LoadExc(file))
    /\ saveState' = "clean"
    /\ UNCHANGED <<file, clock, origin, diskOk>>

\* add_task building the Task from the title as given, not title.strip()
AddTask_NoStrip(title, priority, due_date, tags) ==
    /\ pc = "ready"
    /\ Len(tasks) < MaxTasks
    /\ Tick
    /\ LET args == <<title, priority, due_date, tags>> IN
       IF ~Truthy(title) \/ ~Truthy(Strip(title))
       THEN /\ last' = Call("add", args, None, "EmptyTitle")
            /\ UNCHANGED <<tasks, file, saveState>>
       ELSE IF TaskInitRaises(priority)
       THEN /\ last' = Call("add", args, None, "InvalidPriority")
            /\ UNCHANGED <<tasks, file, saveState>>
       ELSE LET parsed_due == IF OptTruthy(due_date) THEN ParseDate(Val(due_date)) ELSE None
                task == TaskInit(title, priority, parsed_due, tags, clock)
            IN  /\ tasks' = Append(tasks, task)
                /\ SaveTasks(tasks')
                /\ last' = Call("add", args, Some(task), SaveExc(diskOk))
    /\ UNCHANGED <<pc, addsOnly, origin, diskOk>>

\* TaskManager.add_task
AddTask(title, priority, due_date, tags) ==
    /\ pc = "ready"
    /\ Len(tasks) < MaxTasks
    /\ Tick
    /\ LET args == <<title, priority, due_date, tags>> IN
       IF ~Truthy(title) \/ ~Truthy(Strip(title))
       THEN /\ last' = Call("add", args, None, "EmptyTitle")
            /\ UNCHANGED <<tasks, file, saveState>>
       ELSE IF TaskInitRaises(priority)
       THEN /\ last' = Call("add", args, None, "InvalidPriority")
            /\ UNCHANGED <<tasks, file, saveState>>
       ELSE LET parsed_due == IF OptTruthy(due_date) THEN ParseDate(Val(due_date)) ELSE None
                task == TaskInit(Strip(title), priority, parsed_due, tags, clock)
            IN  /\ tasks' = Append(tasks, task)
                /\ SaveTasks(tasks')
                /\ last' = Call("add", args, Some(task), SaveExc(diskOk))
    /\ UNCHANGED <<pc, addsOnly, origin, diskOk>>

\* complete_task calling save_tasks whether or not the index is valid
CompleteTask_AlwaysSaves(index) ==
    /\ pc = "ready"
    /\ Tick
    /\ IF ValidIndex(index, tasks)
       THEN /\ tasks' = [tasks EXCEPT ![index + 1] = MarkComplete(@)]
            /\ SaveTasks(tasks')
            /\ last' = Call("complete", <<index>>, TRUE, SaveExc(diskOk))
            /\ addsOnly' = FALSE
       ELSE /\ SaveTasks(tasks)
            /\ last' = Call("complete", <<index>>, FALSE, "none")
            /\ UNCHANGED <<tasks, addsOnly>>
    /\ UNCHANGED <<pc, origin, diskOk>>

\* TaskManager.complete_task
CompleteTask(index) ==
    /\ pc = "ready"
    /\ Tick
    /\ IF ValidIndex(index, tasks)
       THEN /\ tasks' = [tasks EXCEPT ![index + 1] = MarkComplete(@)]
            /\ SaveTasks(tasks')
            /\ last' = Call("complete", <<index>>, TRUE, SaveExc(diskOk))
            /\ addsOnly' = FALSE
       ELSE /\ last' = Call("complete", <<index>>, FALSE, "none")
            /\ UNCHANGED <<tasks, file, saveState, addsOnly>>
    /\ UNCHANGED <<pc, origin, diskOk>>

\* TaskManager.delete_task
DeleteTask(index) ==
    /\ pc = "ready"
    /\ Tick
    /\ IF ValidIndex(index, tasks)
       THEN /\ tasks' = ListPop(tasks, index)
            /\ SaveTasks(tasks')
            /\ last' = Call("delete", <<index>>, Some(tasks[index + 1]), SaveExc(diskOk))
            /\ addsOnly' = FALSE
       ELSE /\ last' = Call("delete", <<index>>, None, "none")
            /\ UNCHANGED <<tasks, file, saveState, addsOnly>>
    /\ UNCHANGED <<pc, origin, diskOk>>

\* update_task's title step: if title: task.title = title.strip()
UpdateTitle(t, title) ==
    IF OptTruthy(title) THEN [t EXCEPT !.title = Strip(Val(title))] ELSE t

\* update_task raises the ValueError of its priority check
UpdateRaises(priority) == OptTruthy(priority) /\ Lower(Val(priority)) \notin Priorities

\* update_task's priority step, when it does not raise
UpdatePriority(t, priority) ==
    IF OptTruthy(priority) THEN [t EXCEPT !.priority = Lower(Val(priority))] ELSE t

\* update_task's due date step with `if due_date:` for `if due_date is not None:`
UpdateDue_IfTruthy(t, due_date) ==
    IF OptTruthy(due_date) THEN [t EXCEPT !.due_date = ParseDate(Val(due_date))] ELSE t

\* update_task's due date step: None leaves it, an empty or unparseable
\* expression clears it
UpdateDue(t, due_date) ==
    IF due_date # None
    THEN [t EXCEPT !.due_date = IF Truthy(Val(due_date))
                                THEN ParseDate(Val(due_date)) ELSE None]
    ELSE t

\* update_task's tags step: task.tags = [t.lower() for t in tags]
UpdateTags(t, tags) ==
    IF tags # None
    THEN [t EXCEPT !.tags = [i \in 1..Len(Val(tags)) |-> Lower(Val(tags)[i])]]
    ELSE t

\* TaskManager.update_task
UpdateTask(index, title, priority, due_date, tags) ==
    /\ pc = "ready"
    /\ Tick
    /\ LET args == <<index, title, priority, due_date, tags>> IN
       IF ValidIndex(index, tasks)
       THEN LET t1 == UpdateTitle(tasks[index + 1], title) IN
            IF UpdateRaises(priority)
            THEN /\ tasks' = [tasks EXCEPT ![index + 1] = t1]
                 /\ last' = Call("update", args, None, "InvalidPriority")
                 /\ addsOnly' = FALSE
                 /\ UNCHANGED <<file, saveState>>
            ELSE LET t4 == UpdateTags(UpdateDue(UpdatePriority(t1, priority), due_date), tags)
                 IN  /\ tasks' = [tasks EXCEPT ![index + 1] = t4]
                     /\ SaveTasks(tasks')
                     /\ last' = Call("update", args, Some(t4), SaveExc(diskOk))
                     /\ addsOnly' = FALSE
       ELSE /\ last' = Call("update", args, None, "none")
            /\ UNCHANGED <<tasks, file, saveState, addsOnly>>
    /\ UNCHANGED <<pc, origin, diskOk>>

\* TaskManager.add_tag_to_task
AddTagToTask(index, tag) ==
    /\ pc = "ready"
    /\ Tick
    /\ IF ValidIndex(index, tasks)
       THEN /\ Len(tasks[index + 1].tags) < MaxTags
            /\ tasks' = [tasks EXCEPT ![index + 1] = AddTag(@, tag)]
            /\ SaveTasks(tasks')
            /\ last' = Call("add_tag", <<index, tag>>, TRUE, SaveExc(diskOk))
            /\ addsOnly' = FALSE
       ELSE /\ last' = Call("add_tag", <<index, tag>>, FALSE, "none")
            /\ UNCHANGED <<tasks, file, saveState, addsOnly>>
    /\ UNCHANGED <<pc, origin, diskOk>>

\* TaskManager.remove_tag_from_task
RemoveTagFromTask(index, tag) ==
    /\ pc = "ready"
    /\ Tick
    /\ IF ValidIndex(index, tasks)
       THEN IF RemoveTagRaises(tasks[index + 1], tag)
            THEN /\ last' = Call("remove_tag", <<index, tag>>, None, "ValueError")
                 /\ UNCHANGED <<tasks, file, saveState, addsOnly>>
            ELSE /\ tasks' = [tasks EXCEPT ![index + 1] = RemoveTag(@, tag)]
                 /\ SaveTasks(tasks')
                 /\ last' = Call("remove_tag", <<index, tag>>, TRUE, SaveExc(diskOk))
                 /\ addsOnly' = FALSE
       ELSE /\ last' = Call("remove_tag", <<index, tag>>, FALSE, "none")
            /\ UNCHANGED <<tasks, file, saveState, addsOnly>>
    /\ UNCHANGED <<pc, origin, diskOk>>

\* clear_completed without its filter
Incomplete_All(ts) == ts

\* [t for t in self.tasks if not t.completed]
RECURSIVE Incomplete(_)
Incomplete(ts) ==
    IF ts = <<>> THEN <<>>
    ELSE IF Head(ts).completed THEN Incomplete(Tail(ts))
    ELSE <<Head(ts)>> \o Incomplete(Tail(ts))

\* TaskManager.clear_completed
ClearCompleted ==
    /\ pc = "ready"
    /\ Tick
    /\ LET deleted_count == Len(tasks) - Len(Incomplete(tasks)) IN
       /\ tasks' = Incomplete(tasks)
       /\ IF deleted_count > 0
          THEN SaveTasks(tasks')
          ELSE UNCHANGED <<file, saveState>>
       /\ last' = Call("clear_completed", <<>>, deleted_count,
                       IF deleted_count > 0 THEN SaveExc(diskOk) ELSE "none")
       /\ addsOnly' = (addsOnly /\ deleted_count = 0)
    /\ UNCHANGED <<pc, origin, diskOk>>

\* TaskManager.clear_all
ClearAll ==
    /\ pc = "ready"
    /\ Tick
    /\ tasks' = <<>>
    /\ IF Len(tasks) > 0
       THEN SaveTasks(tasks')
       ELSE UNCHANGED <<file, saveState>>
    /\ last' = Call("clear_all", <<>>, Len(tasks),
                    IF Len(tasks) > 0 THEN SaveExc(diskOk) ELSE "none")
    /\ addsOnly' = (addsOnly /\ Len(tasks) = 0)
    /\ UNCHANGED <<pc, origin, diskOk>>

\* a query: it returns ret and leaves the store and the file alone
Query(op, args, ret) ==
    /\ pc = "ready"
    /\ Tick
    /\ last' = Call(op, args, ret, "none")
    /\ UNCHANGED <<tasks, file, pc, addsOnly, origin, diskOk, saveState>>

\* TaskManager.list_tasks
ListTasksCall(show_completed, priority_filter, tag_filter) ==
    Query("list", <<show_completed, priority_filter, tag_filter>>,
          ListTasks(tasks, show_completed, priority_filter, tag_filter))

\* TaskManager.get_tasks_sorted
GetTasksSortedCall(show_completed, priority_filter, tag_filter) ==
    Query("sorted", <<show_completed, priority_filter, tag_filter>>,
          GetTasksSorted(tasks, show_completed, priority_filter, tag_filter))

\* TaskManager.search_tasks
SearchTasksCall(query) == Query("search", <<query>>, SearchTasks(tasks, query))

\* TaskManager.get_tasks_by_tag
GetTasksByTagCall(tag) == Query("by_tag", <<tag>>, GetTasksByTag(tasks, tag))

\* TaskManager.get_all_tags
GetAllTagsCall == Query("all_tags", <<>>, GetAllTags(tasks))

\* TaskManager.get_statistics
GetStatisticsCall == Query("stats", <<>>, GetStatistics(tasks))

Next ==
    \/ Construct
    \/ \E a \in AddArgs : AddTask(a[1], a[2], a[3], a[4])
    \/ \E index \in Indices : CompleteTask(index)
    \/ \E index \in Indices : DeleteTask(index)
    \/ \E index \in Indices, u \in UpdateArgs : UpdateTask(index, u[1], u[2], u[3], u[4])
    \/ \E index \in Indices, tag \in TagArgs : AddTagToTask(index, tag)
    \/ \E index \in Indices, tag \in TagArgs : RemoveTagFromTask(index, tag)
    \/ ClearCompleted
    \/ ClearAll
    \/ \E f \in FilterArgs : ListTasksCall(f[1], f[2], f[3])
    \/ \E f \in FilterArgs : GetTasksSortedCall(f[1], f[2], f[3])
    \/ \E query \in Queries : SearchTasksCall(query)
    \/ \E tag \in TagQueries : GetTasksByTagCall(tag)
    \/ GetAllTagsCall
    \/ GetStatisticsCall

Spec == Init /\ [][Next]_vars

\* the environment: the disk starts to refuse writes (full, read-only,
\* permission lost), or accepts them again
DiskBreaks ==
    /\ pc = "ready"
    /\ diskOk
    /\ diskOk' = FALSE
    /\ UNCHANGED <<tasks, file, clock, pc, last, addsOnly, origin, saveState>>

DiskRecovers ==
    /\ pc = "ready"
    /\ ~diskOk
    /\ diskOk' = TRUE
    /\ UNCHANGED <<tasks, file, clock, pc, last, addsOnly, origin, saveState>>

\* the calls made on the failing disk: some of AddArgs, UpdateArgs, TagArgs
\* and Indices
IOAddArgs ==
    {<< Blank, MEDIUM, None, None >>,
     << TitleB, LOW, None, None >>,
     << TitleAb, HIGH, Some(<<>>), Some(<<TagX, TagX>>) >>}

IOUpdateArgs ==
    {<< Some(TitleAb), Some(URGENT), Some(<<>>), Some(<<>>) >>,
     << None, Some(LOW), Some(<<>>), None >>,
     << None, None, Some(YESTERDAY), Some(<<TagWork, Tagwork>>) >>}

IOTagArgs == {Tagwork, TagX}
IOIndices == {0, 1}

NextIO ==
    \/ Construct
    \/ \E a \in IOAddArgs : AddTask(a[1], a[2], a[3], a[4])
    \/ \E index \in IOIndices : CompleteTask(index)
    \/ \E index \in IOIndices : DeleteTask(index)
    \/ \E index \in IOIndices, u \in IOUpdateArgs : UpdateTask(index, u[1], u[2], u[3], u[4])
    \/ \E index \in IOIndices, tag \in IOTagArgs : AddTagToTask(index, tag)
    \/ \E index \in IOIndices, tag \in IOTagArgs : RemoveTagFromTask(index, tag)
    \/ ClearCompleted
    \/ ClearAll
    \/ DiskBreaks
    \/ DiskRecovers

\* the store on a disk whose writes can fail
SpecIO == Init /\ [][NextIO]_vars

----------------------------------------------------------------------------
(* Vocabulary of the properties *)

MutatingOps == {"add", "complete", "delete", "update", "add_tag", "remove_tag",
                "clear_completed", "clear_all"}
IndexOps == {"complete", "delete", "update", "add_tag", "remove_tag"}

\* the task sequence a file holds; a missing file holds the empty sequence
FileHolds(f, ts) ==
    \/ f.kind = "json" /\ f = Serialize(ts)
    \/ f.kind = "missing" /\ ts = <<>>

\* the first store was built on a missing file or on a file save_tasks wrote
CanonicalOrigin ==
    \/ origin.kind = "missing"
    \/ /\ origin.kind = "json"
       /\ LoadExc(origin) = "none"
       /\ Serialize(LoadTasks(origin, 0)) = origin

\* a string that is empty or all whitespace
IsBlank(s) == \A i \in 1..Len(s) : IsSpace(s[i])

\* t is s without its surrounding whitespace
IsTrimOf(t, s) ==
    /\ t # <<>>
    /\ ~IsSpace(t[1])
    /\ ~IsSpace(t[Len(t)])
    /\ \E i \in 0..Len(s) :
          /\ i + Len(t) <= Len(s)
          /\ SubSeq(s, i + 1, i + Len(t)) = t
          /\ IsBlank(SubSeq(s, 1, i))
          /\ IsBlank(SubSeq(s, i + Len(t) + 1, Len(s)))

\* how many entries of a tag list equal tag ignoring case
CountTag(l, tag) == Cardinality({i \in 1..Len(l) : Lower(l[i]) = Lower(tag)})

NoDuplicates(l) == \A i, j \in 1..Len(l) : l[i] = l[j] => i = j

----------------------------------------------------------------------------
(* C1: after every mutating call on a store started from a missing or       *)
(* well-formed file, the backing file holds exactly the serialization of    *)
(* the in-memory sequence.                                                  *)
C1_FileHoldsMemory ==
    (pc = "ready" /\ CanonicalOrigin /\ last.op \in MutatingOps)
        => FileHolds(file, tasks)

(* C2: a new store built on the file of a store that started empty and was  *)
(* only added to holds the same tasks, in the same order, field by field.   *)
C2_RoundTrip ==
    [][(addsOnly /\ last'.op = "construct")
          => (last'.exc = "none" /\ pc' = "ready" /\ tasks' = tasks)]_vars

C2_Witness ==
    /\ addsOnly
    /\ last.op = "construct"
    /\ Len(tasks) = 2
    /\ tasks[1].tags # <<>>
    /\ tasks[1].due_date # None
    /\ tasks[1].created_at # tasks[2].created_at

(* C3: no task ever carries the same tag twice.                             *)
C3_NoDuplicateTags ==
    \A i \in 1..Len(tasks) : NoDuplicates(tasks[i].tags)

(* C4: adding a non-blank tag that the task already got, in any letter      *)
(* case, from an immediately preceding add_tag_to or from add's tags        *)
(* argument leaves exactly one occurrence of it, lower-cased.               *)
C4_AddTagIdempotent ==
    [][(/\ last'.op = "add_tag"
        /\ ValidIndex(last'.args[1], tasks)
        /\ ~IsBlank(last'.args[2])
        /\ \/ /\ last.op = "add_tag"
              /\ last.args[1] = last'.args[1]
              /\ Lower(last.args[2]) = Lower(last'.args[2])
           \/ /\ last.op = "add"
              /\ last.exc = "none"
              /\ last'.args[1] = Len(tasks) - 1
              /\ last.args[4] # None
              /\ CountTag(Val(last.args[4]), last'.args[2]) = 1)
       => LET tags == tasks'[last'.args[1] + 1].tags
          IN  /\ CountTag(tags, last'.args[2]) = 1
              /\ InList(Lower(last'.args[2]), tags)]_vars

(* C5: no task ever has an empty or whitespace-only title.                  *)
C5_TitleNeverBlank ==
    \A i \in 1..Len(tasks) : ~IsBlank(tasks[i].title)

(* C6, as claimed: every task's priority is low, medium or high; add and    *)
(* update store a priority of the set lower-cased and fail with             *)
(* InvalidPriority for any other string.                                    *)
C6_PriorityOrReject ==
    /\ \A i \in 1..Len(tasks) : tasks[i].priority \in Priorities
    /\ (last.op = "add" /\ ~IsBlank(last.args[1]))
          => IF Lower(last.args[2]) \in Priorities
             THEN /\ last.exc = "none"
                  /\ Val(last.ret).priority = Lower(last.args[2])
             ELSE last.exc = "InvalidPriority"
    /\ (last.op = "update" /\ ValidIndex(last.args[1], tasks) /\ last.args[3] # None)
          => IF Lower(Val(last.args[3])) \in Priorities
             THEN /\ last.exc = "none"
                  /\ tasks[last.args[1] + 1].priority = Lower(Val(last.args[3]))
             ELSE last.exc = "InvalidPriority"

(* C6, amended: as claimed, but update fails with InvalidPriority only for  *)
(* a non-empty string outside the set: an empty priority is taken as        *)
(* omitted, raises nothing and leaves the priority as it was.               *)
C6_PriorityInSet ==
    /\ \A i \in 1..Len(tasks) : tasks[i].priority \in Priorities
    /\ (last.op = "add" /\ ~IsBlank(last.args[1]))
          => IF Lower(last.args[2]) \in Priorities
             THEN /\ last.exc = "none"
                  /\ Val(last.ret).priority = Lower(last.args[2])
             ELSE last.exc = "InvalidPriority"
    /\ (last.op = "update" /\ ValidIndex(last.args[1], tasks) /\ last.args[3] # None)
          => IF Lower(Val(last.args[3])) \in Priorities
             THEN /\ last.exc = "none"
                  /\ tasks[last.args[1] + 1].priority = Lower(Val(last.args[3]))
             ELSE IF Val(last.args[3]) = <<>>
             THEN last.exc = "none"
             ELSE last.exc = "InvalidPriority"

C6_Witness ==
    /\ last.op = "update"
    /\ ValidIndex(last.args[1], tasks)
    /\ last.args[3] = Some(High)
    /\ last.exc = "none"
    /\ tasks[last.args[1] + 1].priority = HIGH

(* C7: an operation given an index outside 0 <= index < length raises       *)
(* nothing, returns false (complete, add_tag_to, remove_tag_from) or null   *)
(* (delete, update), and leaves the sequence and the file as they were.     *)
C7_InvalidIndexIsSoft ==
    [][(last'.op \in IndexOps /\ ~ValidIndex(last'.args[1], tasks))
          => /\ last'.exc = "none"
             /\ last'.ret = IF last'.op \in {"delete", "update"} THEN None ELSE FALSE
             /\ tasks' = tasks
             /\ file' = file]_vars

C7_Witness ==
    /\ last.op = "complete"
    /\ last.args[1] = Len(tasks)
    /\ last.ret = FALSE
    /\ Len(tasks) = 1
    /\ ~tasks[1].completed
    /\ file # Serialize(tasks)

(* C8: add fails with EmptyTitle on a blank title and with InvalidPriority  *)
(* on a priority outside the set, changing neither sequence nor file;       *)
(* otherwise it appends exactly one task, not completed and with the title  *)
(* trimmed, keeps every earlier task in place and returns the new task.     *)
C8_AddAppendsOrFails ==
    [][last'.op = "add"
          => IF IsBlank(last'.args[1])
             THEN last'.exc = "EmptyTitle" /\ tasks' = tasks /\ file' = file
             ELSE IF Lower(last'.args[2]) \notin Priorities
             THEN last'.exc = "InvalidPriority" /\ tasks' = tasks /\ file' = file
             ELSE /\ last'.exc = "none"
                  /\ Len(tasks') = Len(tasks) + 1
                  /\ SubSeq(tasks', 1, Len(tasks)) = tasks
                  /\ IsTrimOf(tasks'[Len(tasks')].title, last'.args[1])
                  /\ ~tasks'[Len(tasks')].completed
                  /\ last'.ret = Some(tasks'[Len(tasks')])]_vars

C8_Witness ==
    /\ last.op = "add"
    /\ last.exc = "none"
    /\ Len(tasks) = 2
    /\ last.args[1] # tasks[2].title
    /\ tasks[1].completed

(* C9: the only errors a store operation raises are EmptyTitle, from add,   *)
(* and InvalidPriority, from add and update.                                *)
C9_OnlyValidationErrors ==
    \/ last.exc = "none"
    \/ last.exc = "EmptyTitle" /\ last.op = "add"
    \/ last.exc = "InvalidPriority" /\ last.op \in {"add", "update"}

\* a tag list without the entries equal to tag ignoring case
RECURSIVE WithoutTag(_, _)
WithoutTag(l, tag) ==
    IF l = <<>> THEN <<>>
    ELSE IF Lower(Head(l)) = Lower(tag) THEN WithoutTag(Tail(l), tag)
    ELSE <<Head(l)>> \o WithoutTag(Tail(l), tag)

(* C10: remove_tag_from on a valid index returns true and leaves the task   *)
(* with its former tags, in order, less those equal to the tag ignoring     *)
(* case.                                                                    *)
C10_RemoveTagRemoves ==
    [][(last'.op = "remove_tag" /\ ValidIndex(last'.args[1], tasks))
          => /\ last'.exc = "none"
             /\ last'.ret = TRUE
             /\ tasks' = [tasks EXCEPT ![last'.args[1] + 1].tags =
                                           WithoutTag(@, last'.args[2])]]_vars


----------------------------------------------------------------------------
(* The queries *)

\* overdue: not completed, due date set and strictly before today
Overdue(t) == ~t.completed /\ t.due_date # None /\ Val(t.due_date) < Today

\* the three ascending keys of the sorted view as one number
ViewKey(t) ==
    6 * (IF t.completed THEN 1 ELSE 0)
    + 2 * (CASE t.priority = HIGH -> 0 [] t.priority = MEDIUM -> 1 [] OTHER -> 2)
    + (IF Overdue(t) THEN 0 ELSE 1)

\* C11: get_tasks_sorted returns a permutation of what list_tasks returns for
\* the same filters, in ascending order of (completed, priority rank, overdue
\* first), tasks of equal keys in store order, so every completed task
\* follows every incomplete one; the store and the file are not changed.
C11_SortedView ==
    [][last'.op = "sorted" =>
        LET f == last'.args
            listed == ListTasks(tasks, f[1], f[2], f[3])
            ret == last'.ret
            n == Len(listed)
        IN  /\ tasks' = tasks
            /\ file' = file
            /\ Len(ret) = n
            /\ \E m \in [1..n -> 1..n] :
                  /\ \A i \in 1..n : ret[m[i]] = listed[i]
                  /\ \A i, j \in 1..n : i < j => m[i] # m[j]
                  /\ \A i, j \in 1..n :
                        i < j /\ ViewKey(listed[i]) = ViewKey(listed[j]) => m[i] < m[j]
            /\ \A i, j \in 1..n : i < j => ViewKey(ret[i]) <= ViewKey(ret[j])
            /\ \A i, j \in 1..n : i < j => ~(ret[i].completed /\ ~ret[j].completed)
    ]_vars

\* a sorted view that moved an overdue task in front of an earlier task of
\* the same priority that is not overdue
C11_Witness ==
    /\ last.op = "sorted"
    /\ Len(last.ret) = 2
    /\ last.ret = <<tasks[2], tasks[1]>>
    /\ last.ret[1].priority = last.ret[2].priority
    /\ ~last.ret[1].completed /\ ~last.ret[2].completed
    /\ Overdue(last.ret[1]) /\ ~Overdue(last.ret[2])


----------------------------------------------------------------------------
(* update, delete, clear_completed *)

\* C12: update_task on a valid index leaves an omitted (None) title,
\* priority, due date and tags of the task as they were, clears the due date
\* when the call succeeds with an empty due expression, and never changes the
\* task's completed flag and created_at, the length of the sequence or any
\* other task.
C12_UpdateFrame ==
    [][(last'.op = "update" /\ 0 <= last'.args[1] /\ last'.args[1] < Len(tasks)) =>
        LET a == last'.args
            i == a[1] + 1
        IN  /\ Len(tasks') = Len(tasks)
            /\ \A k \in 1..Len(tasks) : k # i => tasks'[k] = tasks[k]
            /\ tasks'[i].completed = tasks[i].completed
            /\ tasks'[i].created_at = tasks[i].created_at
            /\ a[2] = None => tasks'[i].title = tasks[i].title
            /\ a[3] = None => tasks'[i].priority = tasks[i].priority
            /\ a[4] = None => tasks'[i].due_date = tasks[i].due_date
            /\ a[5] = None => tasks'[i].tags = tasks[i].tags
            /\ (a[4] = Some(<<>>) /\ last'.exc = "none") => tasks'[i].due_date = None
    ]_vars

\* the first call on the two stored records gave the second a priority and
\* an empty due expression: its due date is gone, its other fields are kept
C12_Witness ==
    /\ last.op = "update"
    /\ last.args = <<1, None, Some(LOW), Some(<<>>), None>>
    /\ last.exc = "none"
    /\ clock = 2
    /\ origin = JsonFile(<<StoredRecord, StoredRecord2>>)
    /\ StoredRecord2.due_date # None
    /\ Len(tasks) = 2
    /\ tasks[2].due_date = None
    /\ tasks[2].tags = StoredRecord2.tags

\* C13: delete_task with 0 <= index < length returns the task at index; the
\* tasks before it keep their index, the tasks after it move down by one, the
\* length decreases by one and no remaining task changes.
C13_DeleteShifts ==
    [][(last'.op = "delete" /\ 0 <= last'.args[1] /\ last'.args[1] < Len(tasks)) =>
        LET i == last'.args[1] + 1
        IN  /\ last'.exc = "none"
            /\ last'.ret = Some(tasks[i])
            /\ Len(tasks') = Len(tasks) - 1
            /\ \A k \in 1..Len(tasks') :
                  tasks'[k] = IF k < i THEN tasks[k] ELSE tasks[k + 1]
    ]_vars

\* the first of two tasks was deleted and the second is now at index 0
C13_Witness ==
    /\ last.op = "delete"
    /\ last.args = <<0>>
    /\ clock = 2
    /\ origin = JsonFile(<<StoredRecord, StoredRecord2>>)
    /\ last.ret # None
    /\ Val(last.ret).title = StoredRecord.title
    /\ Len(tasks) = 1
    /\ tasks[1].title = StoredRecord2.title

\* C14: clear_completed returns the number of completed tasks and leaves the
\* incomplete ones in their order; with no completed task it returns 0 and
\* changes neither the sequence nor the file.
C14_ClearCompleted ==
    [][last'.op = "clear_completed" =>
        LET done == {i \in 1..Len(tasks) : tasks[i].completed}
            Open(t) == ~t.completed
        IN  /\ last'.exc = "none"
            /\ last'.ret = Cardinality(done)
            /\ tasks' = SelectSeq(tasks, Open)
            /\ done = {} => (last'.ret = 0 /\ tasks' = tasks /\ file' = file)
    ]_vars

\* clear_completed found nothing to remove and left alone a file that a
\* save would have rewritten
C14_Witness ==
    /\ last.op = "clear_completed"
    /\ last.ret = 0
    /\ Len(tasks) > 0
    /\ file.kind = "json"
    /\ file # Serialize(tasks)


----------------------------------------------------------------------------
(* search, tags, loading *)

\* the task carries a tag that contains the query, ignoring case
TagContains(t, query) ==
    \E i \in 1..Len(t.tags) : Contains(Lower(query), Lower(t.tags[i]))

\* the task carries a tag equal to the given one, ignoring case
CarriesTag(t, tag) == CountTag(t.tags, tag) > 0

\* C15: search_tasks returns, in store order and changing nothing, exactly
\* the tasks whose title or one of whose tags contains the query ignoring
\* case, here on stores that started empty and got their tasks, tags
\* included, from add.
C15_SearchFinds ==
    [][(last'.op = "search" /\ addsOnly) =>
        LET query == last'.args[1]
            Hit(t) == Contains(Lower(query), Lower(t.title)) \/ TagContains(t, query)
        IN  /\ last'.ret = SelectSeq(tasks, Hit)
            /\ tasks' = tasks
            /\ file' = file
    ]_vars

\* C16: get_tasks_by_tag(T) and list_tasks(tag_filter=T) return, in store
\* order, exactly the tasks (of those the other filters leave) that carry a
\* tag equal to T ignoring case, here on stores that started empty and got
\* their tasks, tags included, from add.
C16_TagFilterFinds ==
    [][addsOnly =>
        /\ last'.op = "by_tag" =>
              LET Has(t) == CarriesTag(t, last'.args[1])
              IN  last'.ret = SelectSeq(tasks, Has)
        /\ (last'.op = "list" /\ OptTruthy(last'.args[3])) =>
              LET f == last'.args
                  Has(t) == CarriesTag(t, Val(f[3]))
              IN  last'.ret = SelectSeq(ListTasks(tasks, f[1], f[2], None), Has)
    ]_vars

\* C17: building a store on a missing or unparseable file raises nothing and
\* gives the empty sequence, with load_tasks' warning exactly for the
\* unparseable file; an add with a non-blank title and a priority of the set
\* that follows succeeds and leaves the file holding the one-task sequence.
C17_LoadFallsBackToEmpty ==
    [][/\ (last'.op = "construct" /\ file.kind \in {"missing", "garbage"}) =>
            /\ last'.exc = "none"
            /\ last'.ret = (file.kind = "garbage")
            /\ pc' = "ready"
            /\ tasks' = <<>>
            /\ file' = file
       /\ (/\ last.op = "construct"
           /\ file.kind \in {"missing", "garbage"}
           /\ last'.op = "add"
           /\ ~IsBlank(last'.args[1])
           /\ Lower(last'.args[2]) \in Priorities) =>
            /\ last'.exc = "none"
            /\ last'.ret # None
            /\ tasks' = <<Val(last'.ret)>>
            /\ file' = Serialize(tasks')
    ]_vars

\* the first call on a store built on an unparseable file was an add, and
\* the file holds its task
C17_Witness ==
    /\ origin = GarbageFile
    /\ clock = 2
    /\ last.op = "add"
    /\ last.exc = "none"
    /\ Len(tasks) = 1
    /\ file = Serialize(tasks)


----------------------------------------------------------------------------
(* A failing disk *)

\* C18: a mutating call whose save_tasks meets a failing disk raises no I/O
\* error, returns what it returns otherwise and changes the sequence in
\* memory as it does otherwise, and the store goes on; the first save that
\* succeeds after a failed one leaves the file holding the whole sequence.
C18_SaveFailureIsSoft ==
    [][(clock' = clock + 1 /\ last'.op \in MutatingOps) =>
        LET a == last'.args
            valid == 0 <= a[1] /\ a[1] < Len(tasks)
            Open(t) == ~t.completed
        IN  /\ last'.exc # "IOError"
            /\ pc' = "ready"
            /\ ~diskOk =>
                /\ (last'.op = "add" /\ ~IsBlank(a[1]) /\ Lower(a[2]) \in Priorities) =>
                      /\ last'.exc = "none"
                      /\ last'.ret # None
                      /\ tasks' = Append(tasks, Val(last'.ret))
                /\ (last'.op = "complete" /\ valid) =>
                      /\ last'.ret = TRUE
                      /\ tasks' = [tasks EXCEPT ![a[1] + 1].completed = TRUE]
                /\ (last'.op = "delete" /\ valid) =>
                      /\ last'.ret = Some(tasks[a[1] + 1])
                      /\ Len(tasks') = Len(tasks) - 1
                /\ (last'.op = "update" /\ valid /\ last'.exc = "none") =>
                      /\ last'.ret = Some(tasks'[a[1] + 1])
                      /\ a[5] # None => Len(tasks'[a[1] + 1].tags) = Len(Val(a[5]))
                /\ last'.op = "clear_completed" =>
                      /\ last'.ret = Len(tasks) - Len(tasks')
                      /\ tasks' = SelectSeq(tasks, Open)
                /\ last'.op = "clear_all" =>
                      /\ last'.ret = Len(tasks)
                      /\ tasks' = <<>>
            /\ (saveState = "lost" /\ saveState' = "recovered") => file' = Serialize(tasks')
    ]_vars

\* two adds on a store built on a missing file: the save of the first
\* failed, the save of the second succeeded and the file holds both tasks
C18_Witness ==
    /\ origin = MissingFile
    /\ clock = 3
    /\ saveState = "recovered"
    /\ last.op = "add"
    /\ last.exc = "none"
    /\ Len(tasks) = 2
    /\ file = Serialize(tasks)


----------------------------------------------------------------------------
(* Statistics and the failing update *)

\* C19: in every reachable state get_statistics agrees with the sequence:
\* total is its length, total = completed + incomplete, the by_priority
\* counts add up to incomplete, overdue counts the tasks that are not
\* completed and whose due date is set and before today, and overdue is at
\* most incomplete.
C19_StatisticsConsistent ==
    LET stats == GetStatistics(tasks)
        all == 1..Len(tasks)
    IN  /\ stats.total = Len(tasks)
        /\ stats.completed = Cardinality({i \in all : tasks[i].completed})
        /\ stats.total = stats.completed + stats.incomplete
        /\ stats.by_priority.high + stats.by_priority.medium + stats.by_priority.low
              = stats.incomplete
        /\ stats.overdue = Cardinality({i \in all : Overdue(tasks[i])})
        /\ stats.overdue <= stats.incomplete
        /\ last.op = "stats" => last.ret = stats

\* statistics of a store with a completed task whose due date has passed
\* and an open task
C19_Witness ==
    /\ last.op = "stats"
    /\ last.ret.total = 2
    /\ last.ret.completed = 1
    /\ last.ret.overdue = 0
    /\ \E i \in 1..Len(tasks) :
          /\ tasks[i].completed
          /\ tasks[i].due_date # None
          /\ Val(tasks[i].due_date) < Today

\* C20: an update_task on a valid index that raises InvalidPriority has
\* changed no field of any task and has not touched the file.
C20_UpdateAllOrNothing ==
    [][(/\ last'.op = "update"
        /\ 0 <= last'.args[1] /\ last'.args[1] < Len(tasks)
        /\ last'.exc = "InvalidPriority") =>
            /\ tasks' = tasks
            /\ file' = file
    ]_vars

====
